---- MODULE Spec2Model ----
(***************************************************************************)
(* Character-timing pipeline of elevenlabs_phonemes_v2:                    *)
(*   - CharacterDataPublisher.capture_text (src/server/agent_direct.py),   *)
(*     a pass-through text-output stage that republishes timed fragments   *)
(*     on the "character_timing" data channel;                             *)
(*   - AlignmentLogger (src/server/file_logger.py), which persists the     *)
(*     alignment record and raw text of an utterance and reads back the    *)
(*     "latest" pointer files, and get_alignment_logger, its singleton.    *)
(*                                                                         *)
(* A Python str is a sequence of code points, bytes a sequence of 0..255,  *)
(* an Optional[int] is <<>> (None) or <<n>>.                               *)
(***************************************************************************)
EXTENDS Integers, Sequences, FiniteSets, TLC

VARIABLES
    \* ---- CharacterDataPublisher and its collaborators
    next_in_chain,   \* TRUE iff the stage was constructed with a next stage
    pc,              \* position inside capture_text: idle / publish / forward / done
    fragment,        \* the argument `text` of the running capture_text call
    emission,        \* how the try block of the running call ended
    attempts,        \* publish_data calls made by the running call
    forwarded,       \* fragments the running call handed to next_in_chain
    side_channel,    \* messages the room delivered, oldest first
    captures,        \* capture_text calls started so far
    \* ---- AlignmentLogger and its collaborators
    now,             \* what datetime.now() reads: the local wall clock
    fs,              \* the file system: path -> file content (a list of byte strings)
    default_logger,  \* _default_logger: <<>> (None) or <<instance>>
    created,         \* AlignmentLogger instances constructed by get_alignment_logger
    getter,          \* history of get_alignment_logger: first and latest base_dir, returns
    args,            \* arguments of the pending save_alignment call (SpecRecord)
    saved,           \* save_alignment calls that returned: <<[path, record, text]>>
    last,            \* the most recent logger call and what it returned
    calls,           \* save_alignment / save_raw_output calls made so far
    failures         \* calls among them that raised an I/O error

capture_vars == <<next_in_chain, pc, fragment, emission, attempts, forwarded,
                  side_channel, captures>>
logger_vars  == <<now, fs, default_logger, created, getter, args, saved, last, calls,
                  failures>>
vars == <<next_in_chain, pc, fragment, emission, attempts, forwarded,
          side_channel, captures,
          now, fs, default_logger, created, getter, args, saved, last, calls, failures>>

-----------------------------------------------------------------------------
(* Bounds of the model.                                                    *)
MaxCaptures == 2     \* capture_text calls in a run
MaxLen      == 2     \* length of text, chars, times and durations
MaxClock    == 1     \* largest reading of the wall clock
MaxCalls    == 2     \* save_alignment / save_raw_output calls in a run
MaxFailures == 1     \* calls of a run that raise an I/O error

None == <<>>
Some(v) == <<v>>

\* Code points used for text: 'a' and ARABIC LETTER MEEM.
Letters  == {97, 1605}

SeqsUpTo(S, n) == UNION {[1..k -> S] : k \in 0..n}

RECURSIVE Concat(_)
Concat(ss) == IF ss = <<>> THEN <<>> ELSE Head(ss) \o Concat(Tail(ss))

-----------------------------------------------------------------------------
(* Text codecs of the standard library, as the code uses them.             *)

\* str.encode("utf-8") / a file opened with encoding="utf-8", for one code point.
Utf8Char(c) ==
    IF c < 128 THEN <<c>>
    ELSE IF c < 2048 THEN <<192 + (c \div 64), 128 + (c % 64)>>
    ELSE <<224 + (c \div 4096), 128 + ((c \div 64) % 64), 128 + (c % 64)>>

Utf8Encode(s) == Concat([i \in 1..Len(s) |-> Utf8Char(s[i])])

IsCont(b) == b >= 128 /\ b < 192

\* bytes -> str with errors="strict": [ok, s]; ok is FALSE on a malformed sequence.
RECURSIVE Utf8Decode(_)
Utf8Decode(b) ==
    IF b = <<>> THEN [ok |-> TRUE, s |-> <<>>]
    ELSE LET h == Head(b) IN
      IF h < 128 THEN
          LET r == Utf8Decode(Tail(b)) IN [ok |-> r.ok, s |-> <<h>> \o r.s]
      ELSE IF h >= 194 /\ h < 224 /\ Len(b) >= 2 /\ IsCont(b[2]) THEN
          LET r == Utf8Decode(SubSeq(b, 3, Len(b))) IN
          [ok |-> r.ok, s |-> <<(h - 192) * 64 + (b[2] - 128)>> \o r.s]
      ELSE IF h >= 224 /\ h < 240 /\ Len(b) >= 3 /\ IsCont(b[2]) /\ IsCont(b[3]) THEN
          LET r == Utf8Decode(SubSeq(b, 4, Len(b))) IN
          [ok |-> r.ok,
           s |-> <<(h - 224) * 4096 + (b[2] - 128) * 64 + (b[3] - 128)>> \o r.s]
      ELSE [ok |-> FALSE, s |-> <<>>]

\* Reading in text mode with newline=None: "\r\n" and "\r" become "\n".
RECURSIVE TranslateNewlines(_)
TranslateNewlines(s) ==
    IF s = <<>> THEN <<>>
    ELSE IF Head(s) = 13 THEN
        IF Len(s) >= 2 /\ s[2] = 10
        THEN <<10>> \o TranslateNewlines(SubSeq(s, 3, Len(s)))
        ELSE <<10>> \o TranslateNewlines(Tail(s))
    ELSE <<Head(s)>> \o TranslateNewlines(Tail(s))

\* f.read() of a file opened "r", encoding="utf-8": [ok, s].
ReadText(bytes) ==
    LET d == Utf8Decode(bytes) IN
    [ok |-> d.ok, s |-> IF d.ok THEN TranslateNewlines(d.s) ELSE <<>>]

HexDigit(n) == IF n < 10 THEN 48 + n ELSE 87 + n

\* \uXXXX
UEscape(c) == <<92, 117, HexDigit((c \div 4096) % 16), HexDigit((c \div 256) % 16),
                HexDigit((c \div 16) % 16), HexDigit(c % 16)>>

\* json string escaping of one code point; ascii is the ensure_ascii flag.
JsonEscapeChar(c, ascii) ==
    IF c = 34 THEN <<92, 34>>
    ELSE IF c = 92 THEN <<92, 92>>
    ELSE IF c = 10 THEN <<92, 110>>
    ELSE IF c = 13 THEN <<92, 114>>
    ELSE IF c = 9 THEN <<92, 116>>
    ELSE IF c < 32 THEN UEscape(c)
    ELSE IF ascii /\ c > 126 THEN UEscape(c)
    ELSE <<c>>

\* json.dumps(s) for a str s: the quoted, escaped text.
JsonString(s, ascii) ==
    <<34>> \o Concat([i \in 1..Len(s) |-> JsonEscapeChar(s[i], ascii)]) \o <<34>>

HexValue(d) == IF d >= 48 /\ d <= 57 THEN d - 48 ELSE d - 87

\* The body of a JSON string (between the quotes) -> [ok, s].
RECURSIVE JsonUnescape(_)
JsonUnescape(t) ==
    IF t = <<>> THEN [ok |-> TRUE, s |-> <<>>]
    ELSE IF Head(t) = 34 \/ Head(t) < 32 THEN [ok |-> FALSE, s |-> <<>>]
    ELSE IF Head(t) # 92 THEN
        LET r == JsonUnescape(Tail(t)) IN [ok |-> r.ok, s |-> <<Head(t)>> \o r.s]
    ELSE IF Len(t) < 2 THEN [ok |-> FALSE, s |-> <<>>]
    ELSE IF t[2] = 117 THEN
        IF Len(t) < 6 THEN [ok |-> FALSE, s |-> <<>>]
        ELSE LET r == JsonUnescape(SubSeq(t, 7, Len(t)))
                 c == HexValue(t[3]) * 4096 + HexValue(t[4]) * 256
                      + HexValue(t[5]) * 16 + HexValue(t[6])
             IN [ok |-> r.ok, s |-> <<c>> \o r.s]
    ELSE LET r == JsonUnescape(SubSeq(t, 3, Len(t)))
             c == IF t[2] = 110 THEN 10
                  ELSE IF t[2] = 114 THEN 13
                  ELSE IF t[2] = 116 THEN 9
                  ELSE t[2]
         IN [ok |-> r.ok /\ t[2] \in {34, 92, 47, 110, 114, 116}, s |-> <<c>> \o r.s]

\* json.dumps(n) for a non-negative int: its decimal digits.
RECURSIVE JsonInt(_)
JsonInt(n) == IF n < 10 THEN <<48 + n>> ELSE JsonInt(n \div 10) \o <<48 + (n % 10)>>

RECURSIVE DigitsValue(_)
DigitsValue(t) ==
    IF t = <<>> THEN 0 ELSE DigitsValue(SubSeq(t, 1, Len(t) - 1)) * 10 + (t[Len(t)] - 48)

IsDigits(t) == t # <<>> /\ \A i \in 1..Len(t) : t[i] >= 48 /\ t[i] <= 57

JsonNull == <<110, 117, 108, 108>>

JsonOptInt(o) == IF o = None THEN JsonNull ELSE JsonInt(o[1])

-----------------------------------------------------------------------------
(* CharacterDataPublisher (agent_direct.py).                               *)

Timings == {<<0, 1>>, <<1, 1>>}

\* io.TimedString: a str carrying start_time and end_time (seconds).
TimedString(s, t) == [timed |-> TRUE, text |-> s, start_time |-> t[1], end_time |-> t[2]]

\* A plain str flowing through the same chain.
PlainString(s) == [timed |-> FALSE, text |-> s, start_time |-> 0, end_time |-> 0]

FragmentTexts == {<<c>> : c \in Letters}

Fragments == {TimedString(s, t) : s \in FragmentTexts, t \in Timings}
             \cup {PlainString(s) : s \in FragmentTexts}

NoFragment == PlainString(<<>>)

\* json.dumps({...}).encode('utf-8'): the values of the object, in key order.
\* json.dumps escapes non-ASCII (ensure_ascii defaults to True).
Payload(f) ==
    [type       |-> "transcription",
     text       |-> Utf8Encode(JsonString(f.text, TRUE)),
     start_time |-> f.start_time,
     end_time   |-> f.end_time]

\* The stage after __init__(room, next_in_chain), before any fragment.
Constructed(hasNext) ==
    /\ next_in_chain = hasNext
    /\ pc = "idle"
    /\ fragment = NoFragment
    /\ emission = "none"
    /\ attempts = 0
    /\ forwarded = <<>>
    /\ side_channel = <<>>
    /\ captures = 0

\* capture_text without the isinstance test: every fragment is published.
CaptureTextAlwaysPublish(f) ==
    /\ pc = "idle"
    /\ captures < MaxCaptures
    /\ captures' = captures + 1
    /\ fragment' = f
    /\ emission' = "none"
    /\ attempts' = 0
    /\ forwarded' = <<>>
    /\ pc' = "publish"
    /\ UNCHANGED <<next_in_chain, side_channel>>
    /\ UNCHANGED logger_vars

\* Entry of capture_text: the isinstance test; for a TimedString the debug
\* line formats start_time and end_time, which are floats, and cannot fail.
CaptureText(f) ==
    /\ pc = "idle"
    /\ captures < MaxCaptures
    /\ captures' = captures + 1
    /\ fragment' = f
    /\ emission' = "none"
    /\ attempts' = 0
    /\ forwarded' = <<>>
    /\ pc' = IF f.timed THEN "publish" ELSE "forward"
    /\ UNCHANGED <<next_in_chain, side_channel>>
    /\ UNCHANGED logger_vars

\* The try block with the exception handler removed: a failed publish_data
\* propagates out of capture_text.
PublishDataUncaught(delivered) ==
    /\ pc = "publish"
    /\ attempts' = attempts + 1
    /\ IF delivered
       THEN /\ side_channel' = Append(side_channel,
                                      [topic |-> "character_timing",
                                       payload |-> Payload(fragment)])
            /\ emission' = "published"
            /\ pc' = "forward"
       ELSE /\ side_channel' = side_channel
            /\ emission' = "raised"
            /\ pc' = "done"
    /\ UNCHANGED <<next_in_chain, fragment, forwarded, captures>>
    /\ UNCHANGED logger_vars

\* The try block: one publish_data call; the room delivers the message or
\* raises, and an exception is caught and logged.
PublishData(delivered) ==
    /\ pc = "publish"
    /\ attempts' = attempts + 1
    /\ IF delivered
       THEN /\ side_channel' = Append(side_channel,
                                      [topic |-> "character_timing",
                                       payload |-> Payload(fragment)])
            /\ emission' = "published"
       ELSE /\ side_channel' = side_channel
            /\ emission' = "raised"
    /\ pc' = "forward"
    /\ UNCHANGED <<next_in_chain, fragment, forwarded, captures>>
    /\ UNCHANGED logger_vars

\* "Always forward to next in chain".
Forward ==
    /\ pc = "forward"
    /\ forwarded' = IF next_in_chain THEN Append(forwarded, fragment) ELSE forwarded
    /\ pc' = "done"
    /\ UNCHANGED <<next_in_chain, fragment, emission, attempts, side_channel, captures>>
    /\ UNCHANGED logger_vars

\* capture_text returns to the pipeline, which may deliver the next fragment.
Return ==
    /\ pc = "done"
    /\ pc' = "idle"
    /\ UNCHANGED <<next_in_chain, fragment, emission, attempts, forwarded,
                   side_channel, captures>>
    /\ UNCHANGED logger_vars

-----------------------------------------------------------------------------
(* AlignmentLogger (file_logger.py): values and files.                     *)

BaseDirs == {"logs", "tmp"}
Sources  == {"llm"}

\* datetime.now().strftime("%Y%m%d_%H%M%S_%f"): fixed-width, zero-padded digits,
\* so equal clock readings give equal tokens and the order is lexical.
Strftime(t) == <<48 + (t \div 10), 48 + (t % 10)>>

\* Path(base_dir) / "alignment" / f"{stem}_{token}.{ext}"; token "" when absent.
PathOf(dir, stem, token, ext) == [dir |-> dir, stem |-> stem, token |-> token, ext |-> ext]

\* AlignmentLogger.__init__: the two directories of an instance.
Instance(id, base_dir) ==
    [id |-> id,
     alignment_dir |-> <<base_dir, "alignment">>,
     output_dir    |-> <<base_dir, "outputs">>]

AlignmentFile(inst, ts)  == PathOf(inst.alignment_dir, "alignment", ts, "json")
LatestAlignment(inst)    == PathOf(inst.alignment_dir, "alignment", <<>>, "txt")
OutputFile(inst, ts)     == PathOf(inst.output_dir, "output", ts, "txt")
LatestOutput(inst)       == PathOf(inst.output_dir, "output", <<>>, "txt")
RawFile(inst, source, ts) == PathOf(inst.output_dir, source, ts, "txt")

Exists(p) == p \in DOMAIN fs.files

\* "Calculate total duration": `if times:` and `if durations and len(durations) > 0:`.
TotalDuration(times, durations) ==
    IF times # <<>>
    THEN times[Len(times)]
         + (IF durations # None /\ Len(durations[1]) > 0
            THEN durations[1][Len(durations[1])] ELSE 0)
    ELSE 0

\* One entry of "characters"; i is the 0-based index of enumerate(chars).
\* The same entry with a missing start time defaulted to 0 instead of None.
CharEntryZeroDefault(i, char, times, durations) ==
    [index       |-> i,
     char        |-> char,
     start_ms    |-> IF i < Len(times) THEN Some(times[i + 1]) ELSE Some(0),
     duration_ms |-> IF durations # None /\ durations[1] # <<>> /\ i < Len(durations[1])
                     THEN Some(durations[1][i + 1]) ELSE None]

CharEntry(i, char, times, durations) ==
    [index       |-> i,
     char        |-> char,
     start_ms    |-> IF i < Len(times) THEN Some(times[i + 1]) ELSE None,
     duration_ms |-> IF durations # None /\ durations[1] # <<>> /\ i < Len(durations[1])
                     THEN Some(durations[1][i + 1]) ELSE None]

\* len(text) counted in UTF-8 bytes instead of code points.
TextLengthBytes(text) == Len(Utf8Encode(text))

\* len(text): the number of code points of a str.
TextLength(text) == Len(text)

\* "Build alignment structure".
AlignmentData(timestamp, text, chars, times, durations) ==
    [timestamp         |-> timestamp,
     text              |-> text,
     text_length       |-> TextLength(text),
     total_duration_ms |-> TotalDuration(times, durations),
     char_count        |-> Len(chars),
     characters        |-> [k \in 1..Len(chars) |->
                               CharEntry(k - 1, chars[k], times, durations)]]

\* A JSON string written with a one-byte encoding instead of UTF-8.
FileStringLatin1(s) == [i \in 1..Len(JsonString(s, FALSE)) |-> JsonString(s, FALSE)[i] % 256]

\* One JSON value written to a file opened with encoding="utf-8".
FileString(s) == Utf8Encode(JsonString(s, FALSE))

FileInt(n)    == Utf8Encode(JsonInt(n))
FileOptInt(o) == Utf8Encode(JsonOptInt(o))

EntryTokens(e) ==
    <<FileInt(e.index), FileString(e.char), FileOptInt(e.start_ms), FileOptInt(e.duration_ms)>>

\* json.dump(alignment_data, f, ensure_ascii=False, indent=2): the values of the
\* document in order, each as the bytes written, closed by the final brace.
JsonDump(d) ==
    <<FileString(d.timestamp), FileString(d.text), FileInt(d.text_length),
      FileInt(d.total_duration_ms), FileInt(d.char_count)>>
    \o Concat([k \in 1..Len(d.characters) |-> EntryTokens(d.characters[k])])
    \o <<(<<125>>)>>

\* f.write(text) on a file opened "w", encoding="utf-8" (os.linesep is "\n").
TextFile(text) == <<Utf8Encode(text)>>

BadLeaf == [ok |-> FALSE, kind |-> "bad", v |-> 0]

\* One JSON value read back: a string, null or a number.
ParseLeaf(bytes) ==
    LET r == ReadText(bytes) IN
    IF ~r.ok THEN BadLeaf
    ELSE IF Len(r.s) >= 2 /\ r.s[1] = 34 /\ r.s[Len(r.s)] = 34 THEN
        LET u == JsonUnescape(SubSeq(r.s, 2, Len(r.s) - 1)) IN
        IF u.ok THEN [ok |-> TRUE, kind |-> "str", v |-> u.s] ELSE BadLeaf
    ELSE IF r.s = JsonNull THEN [ok |-> TRUE, kind |-> "null", v |-> 0]
    ELSE IF IsDigits(r.s) THEN [ok |-> TRUE, kind |-> "int", v |-> DigitsValue(r.s)]
    ELSE BadLeaf

OptOf(leaf) == IF leaf.kind = "null" THEN None ELSE Some(leaf.v)

\* json.load(f): [ok, v]; ok is FALSE when the document is malformed or cut short.
JsonLoad(content) ==
    LET n == Len(content) IN
    IF n < 6 \/ (n - 6) % 4 # 0 THEN [ok |-> FALSE, v |-> <<>>]
    ELSE IF content[n] # <<125>> THEN [ok |-> FALSE, v |-> <<>>]
    ELSE
      LET leaf == [i \in 1..(n - 1) |-> ParseLeaf(content[i])]
          m    == (n - 6) \div 4
          Kind(i) == IF i <= 2 THEN {"str"}
                     ELSE IF i <= 5 THEN {"int"}
                     ELSE IF (i - 6) % 4 = 0 THEN {"int"}
                     ELSE IF (i - 6) % 4 = 1 THEN {"str"}
                     ELSE {"int", "null"}
      IN IF \E i \in 1..(n - 1) : ~leaf[i].ok \/ leaf[i].kind \notin Kind(i)
         THEN [ok |-> FALSE, v |-> <<>>]
         ELSE [ok |-> TRUE,
               v  |-> [timestamp         |-> leaf[1].v,
                       text              |-> leaf[2].v,
                       text_length       |-> leaf[3].v,
                       total_duration_ms |-> leaf[4].v,
                       char_count        |-> leaf[5].v,
                       characters        |-> [k \in 1..m |->
                           [index       |-> leaf[4 * k + 2].v,
                            char        |-> leaf[4 * k + 3].v,
                            start_ms    |-> OptOf(leaf[4 * k + 4]),
                            duration_ms |-> OptOf(leaf[4 * k + 5])]]]]

\* What a write that fails after open() leaves behind: the first n bytes at most,
\* never the whole content.
Truncated(content, n) ==
    LET flat == Concat(content)
        keep == IF n < Len(flat) THEN n ELSE IF Len(flat) = 0 THEN 0 ELSE Len(flat) - 1
    IN <<SubSeq(flat, 1, keep)>>

\* Outcomes of the open()/write() sequence of one call: failAt = 0, every write
\* succeeds; failAt = k, the k-th write raises, at open() (cut = -1, the file is
\* untouched) or after the first byte was written (cut = 1).
IoOutcomes(n) ==
    {[failAt |-> 0, cut |-> 0]}
    \cup {[failAt |-> k, cut |-> c] : k \in 1..n, c \in {-1, 1}}

\* The files after the writes w[k], w[k+1], ... under outcome io.
RECURSIVE WriteAll(_, _, _, _)
WriteAll(files, w, k, io) ==
    IF k > Len(w) THEN files
    ELSE IF io.failAt = k THEN
        IF io.cut < 0 THEN files
        ELSE (w[k].path :> Truncated(w[k].content, io.cut)) @@ files
    ELSE WriteAll((w[k].path :> w[k].content) @@ files, w, k + 1, io)

-----------------------------------------------------------------------------
(* AlignmentLogger (file_logger.py): operations.                           *)

NoArgs == [text |-> <<>>, chars |-> <<>>, times |-> <<>>, durations |-> None]

NoCall == [op |-> "none", raised |-> FALSE, ret |-> None]

\* The module after import: no logger yet, nothing written.
Imported ==
    /\ now = 0
    /\ fs = [dirs |-> {}, files |-> <<>>]
    /\ default_logger = None
    /\ created = 0
    /\ getter = [first |-> None, arg |-> None, returned |-> {}]
    /\ args = NoArgs
    /\ saved = <<>>
    /\ last = NoCall
    /\ calls = 0
    /\ failures = 0

\* get_alignment_logger without the `is None` test: a new instance per call.
GetAlignmentLoggerNoCache(base_dir) ==
    /\ created < MaxCalls + 1
    /\ LET inst == Instance(created + 1, base_dir) IN
        /\ created' = created + 1
        /\ default_logger' = Some(inst)
        /\ fs' = [fs EXCEPT !.dirs = @ \cup {inst.alignment_dir, inst.output_dir}]
        /\ getter' = [first    |-> IF getter.first = None THEN Some(base_dir)
                                   ELSE getter.first,
                      arg      |-> Some(base_dir),
                      returned |-> getter.returned \cup {inst}]
    /\ last' = [op |-> "get_alignment_logger", raised |-> FALSE, ret |-> default_logger']
    /\ UNCHANGED <<now, args, saved, calls, failures>>
    /\ UNCHANGED capture_vars

\* get_alignment_logger(base_dir), with AlignmentLogger.__init__ on first use
\* (mkdir(parents=True, exist_ok=True) of both directories).
GetAlignmentLogger(base_dir) ==
    /\ IF default_logger = None
       THEN LET inst == Instance(created + 1, base_dir) IN
            /\ created' = created + 1
            /\ default_logger' = Some(inst)
            /\ fs' = [fs EXCEPT !.dirs = @ \cup {inst.alignment_dir, inst.output_dir}]
       ELSE UNCHANGED <<created, default_logger, fs>>
    /\ getter' = [first    |-> IF getter.first = None THEN Some(base_dir)
                               ELSE getter.first,
                  arg      |-> Some(base_dir),
                  returned |-> getter.returned \cup {default_logger'[1]}]
    /\ last' = [op |-> "get_alignment_logger", raised |-> FALSE, ret |-> default_logger']
    /\ UNCHANGED <<now, args, saved, calls, failures>>
    /\ UNCHANGED capture_vars

\* The four writes of save_alignment, in program order.
AlignmentWrites(inst, ts, data, text) ==
    <<[path |-> AlignmentFile(inst, ts),  content |-> JsonDump(data)],
      [path |-> LatestAlignment(inst),    content |-> JsonDump(data)],
      [path |-> OutputFile(inst, ts),     content |-> TextFile(text)],
      [path |-> LatestOutput(inst),       content |-> TextFile(text)]>>

\* save_alignment(text, chars, times, durations) on the shared instance.
SaveAlignment(text, chars, times, durations, io) ==
    /\ default_logger # None
    /\ calls < MaxCalls
    /\ io.failAt > 0 => failures < MaxFailures
    /\ failures' = IF io.failAt > 0 THEN failures + 1 ELSE failures
    /\ LET inst      == default_logger[1]
           timestamp == Strftime(now)
           data      == AlignmentData(timestamp, text, chars, times, durations)
           path      == AlignmentFile(inst, timestamp)
       IN
        /\ fs' = [fs EXCEPT !.files =
                     WriteAll(@, AlignmentWrites(inst, timestamp, data, text), 1, io)]
        /\ IF io.failAt = 0
           THEN /\ saved' = Append(saved, [path |-> path, record |-> data, text |-> text])
                /\ last' = [op |-> "save_alignment", raised |-> FALSE, ret |-> Some(path)]
           ELSE /\ saved' = saved
                /\ last' = [op |-> "save_alignment", raised |-> TRUE, ret |-> None]
    /\ calls' = calls + 1
    /\ UNCHANGED <<now, default_logger, created, getter, args>>
    /\ UNCHANGED capture_vars

\* save_raw_output(text, source) on the shared instance.
SaveRawOutput(text, source, io) ==
    /\ default_logger # None
    /\ calls < MaxCalls
    /\ io.failAt > 0 => failures < MaxFailures
    /\ failures' = IF io.failAt > 0 THEN failures + 1 ELSE failures
    /\ LET inst == default_logger[1]
           path == RawFile(inst, source, Strftime(now))
       IN
        /\ fs' = [fs EXCEPT !.files =
                     WriteAll(@, <<[path |-> path, content |-> TextFile(text)]>>, 1, io)]
        /\ last' = IF io.failAt = 0
                   THEN [op |-> "save_raw_output", raised |-> FALSE, ret |-> Some(path)]
                   ELSE [op |-> "save_raw_output", raised |-> TRUE, ret |-> None]
    /\ calls' = calls + 1
    /\ UNCHANGED <<now, default_logger, created, getter, args, saved>>
    /\ UNCHANGED capture_vars

\* What get_latest_alignment returns: None, or the parsed document.
LatestAlignmentValue(inst) ==
    IF ~Exists(LatestAlignment(inst)) THEN None
    ELSE LET r == JsonLoad(fs.files[LatestAlignment(inst)]) IN
         IF r.ok THEN Some(r.v) ELSE None

\* What get_latest_output returns: None, or the text read.
LatestOutputValue(inst) ==
    IF ~Exists(LatestOutput(inst)) THEN None
    ELSE LET r == ReadText(Concat(fs.files[LatestOutput(inst)])) IN
         IF r.ok THEN Some(r.s) ELSE None

\* get_latest_alignment without the try/except around the read.
GetLatestAlignmentUncaught ==
    /\ default_logger # None
    /\ LET inst == default_logger[1] IN
       last' = IF Exists(LatestAlignment(inst))
                  /\ ~JsonLoad(fs.files[LatestAlignment(inst)]).ok
               THEN [op |-> "get_latest_alignment", raised |-> TRUE, ret |-> None]
               ELSE [op |-> "get_latest_alignment", raised |-> FALSE,
                     ret |-> LatestAlignmentValue(inst)]
    /\ UNCHANGED <<now, fs, default_logger, created, getter, args, saved, calls, failures>>
    /\ UNCHANGED capture_vars

GetLatestAlignment ==
    /\ default_logger # None
    /\ last' = [op |-> "get_latest_alignment", raised |-> FALSE,
                ret |-> LatestAlignmentValue(default_logger[1])]
    /\ UNCHANGED <<now, fs, default_logger, created, getter, args, saved, calls, failures>>
    /\ UNCHANGED capture_vars

GetLatestOutput ==
    /\ default_logger # None
    /\ last' = [op |-> "get_latest_output", raised |-> FALSE,
                ret |-> LatestOutputValue(default_logger[1])]
    /\ UNCHANGED <<now, fs, default_logger, created, getter, args, saved, calls, failures>>
    /\ UNCHANGED capture_vars

\* The wall clock advances between two readings ...
ClockAdvance ==
    /\ now < MaxClock
    /\ now' = now + 1
    /\ UNCHANGED <<fs, default_logger, created, getter, args, saved, last, calls, failures>>
    /\ UNCHANGED capture_vars

\* ... or is set back (clock adjustment, end of daylight saving time:
\* datetime.now() is naive local time).
ClockSetBack ==
    /\ \E t \in 0..(now - 1) : now' = t
    /\ UNCHANGED <<fs, default_logger, created, getter, args, saved, last, calls, failures>>
    /\ UNCHANGED capture_vars

-----------------------------------------------------------------------------
(* Specifications.                                                         *)

\* The interceptor, fed fragments one at a time by the pipeline.
NextCapture ==
    \/ \E f \in Fragments : CaptureText(f)
    \/ \E delivered \in BOOLEAN : PublishData(delivered)
    \/ Forward
    \/ Return

InitCapture == (\E hasNext \in BOOLEAN : Constructed(hasNext)) /\ Imported

SpecCapture == InitCapture /\ [][NextCapture]_vars

\* chars is list(text), times one start offset per character.
Decompose(text) == [i \in 1..Len(text) |-> <<text[i]>>]

\* "a\r" and one Arabic letter.
LoggerTexts == {<<97, 13>>, <<1605>>}

LoggerInputs ==
    {[text |-> t, chars |-> Decompose(t), times |-> [i \in 1..Len(t) |-> 10 * i],
      durations |-> None] : t \in LoggerTexts}

Succeeds == [failAt |-> 0, cut |-> 0]

\* The state after the first get_alignment_logger("logs").
LoggerReady ==
    /\ now = 0
    /\ fs = [dirs |-> {Instance(1, "logs").alignment_dir, Instance(1, "logs").output_dir},
             files |-> <<>>]
    /\ default_logger = Some(Instance(1, "logs"))
    /\ created = 1
    /\ getter = [first |-> Some("logs"), arg |-> Some("logs"),
                 returned |-> {Instance(1, "logs")}]
    /\ saved = <<>>
    /\ last = NoCall
    /\ calls = 0
    /\ failures = 0

\* The shared logger, called serially; a write may fail.
NextLogger ==
    \/ \E a \in LoggerInputs, io \in IoOutcomes(4) :
           SaveAlignment(a.text, a.chars, a.times, a.durations, io)
    \/ \E src \in Sources, io \in IoOutcomes(1) : SaveRawOutput(<<1605>>, src, io)
    \/ GetLatestAlignment
    \/ GetLatestOutput
    \/ ClockAdvance
    \/ ClockSetBack

InitLogger == Constructed(TRUE) /\ LoggerReady /\ args = NoArgs

SpecLogger == InitLogger /\ [][NextLogger]_vars

\* The singleton accessor, called with any base_dir between uses of the logger.
NextSingleton ==
    \/ \E d \in BaseDirs : GetAlignmentLogger(d)
    \/ \E a \in LoggerInputs :
           SaveAlignment(a.text, a.chars, a.times, a.durations, Succeeds)
    \/ GetLatestOutput
    \/ ClockAdvance

InitSingleton == Constructed(TRUE) /\ Imported

SpecSingleton == InitSingleton /\ [][NextSingleton]_vars

\* save_alignment as a function of its arguments: chars, times and durations
\* drawn independently, so that their lengths may differ; text is the
\* concatenation of chars, or that followed by one more character.
TextsFor(chars) == {Concat(chars)} \cup {Concat(chars) \o <<l>> : l \in Letters}

RecordInputs ==
    UNION {{[text |-> t, chars |-> c, times |-> ts, durations |-> d] :
               t  \in TextsFor(c),
               ts \in SeqsUpTo({10, 20}, MaxLen),
               d  \in {None} \cup {Some(x) : x \in SeqsUpTo({3, 4}, MaxLen)}} :
           c \in SeqsUpTo({<<l>> : l \in Letters}, MaxLen)}

InitRecord == Constructed(TRUE) /\ LoggerReady /\ args \in RecordInputs

SaveAlignmentOfArgs ==
    SaveAlignment(args.text, args.chars, args.times, args.durations, Succeeds)

NextRecord == SaveAlignmentOfArgs

SpecRecord == InitRecord /\ [][NextRecord]_vars

-----------------------------------------------------------------------------
(* Properties of CharacterDataPublisher, under SpecCapture.                *)

\* C1: a TimedString captured by a stage that has a next stage reaches that
\* stage exactly once and unmodified, whether publish_data delivered the
\* message or raised.
C1_TimedForwardedExactlyOnce ==
    (fragment.timed /\ next_in_chain) =>
        /\ Len(forwarded) <= 1
        /\ pc = "done" => forwarded = <<fragment>>

C1_Witness ==
    /\ pc = "done" /\ fragment.timed /\ next_in_chain
    /\ emission = "raised" /\ attempts = 1
    /\ forwarded = <<fragment>>

\* Every message on the side channel carries the topic "character_timing",
\* and a call sends at most once.
AtMostOneSend ==
    /\ attempts <= 1
    /\ Len(side_channel) <= captures
    /\ \A i \in 1..Len(side_channel) : side_channel[i].topic = "character_timing"

\* C2 as stated: at most one send per call and none for a plain fragment,
\* and the plain fragment is forwarded exactly once.
C2_PlainForwardedExactlyOnce ==
    pc = "done" =>
        /\ AtMostOneSend
        /\ ~fragment.timed => (attempts = 0 /\ forwarded = <<fragment>>)

\* C2, amended: at most one send per call (one attempt, no retry) and none
\* for a plain fragment; the plain fragment is forwarded exactly once when a
\* next stage is configured and dropped when none is.
C2_PlainForwardedOrDropped ==
    /\ AtMostOneSend
    /\ fragment.timed => (pc \in {"forward", "done"} => attempts = 1)
    /\ ~fragment.timed => attempts = 0
    /\ (pc = "done" /\ ~fragment.timed) =>
           forwarded = IF next_in_chain THEN <<fragment>> ELSE <<>>

C2_Witness ==
    /\ pc = "done" /\ ~fragment.timed /\ fragment # NoFragment
    /\ ~next_in_chain /\ forwarded = <<>>
    /\ attempts = 0 /\ Len(side_channel) = 1

-----------------------------------------------------------------------------
(* Properties of the record save_alignment builds, under SpecRecord.       *)

LastCharKnownStart == Len(args.chars) > 0 /\ Len(args.chars) <= Len(args.times)

LastCharKnownDuration ==
    /\ args.durations # None
    /\ Len(args.chars) > 0 /\ Len(args.chars) <= Len(args.durations[1])

\* C3: total_duration_ms is 0 without characters, and otherwise the start
\* offset of the last character of chars plus that character's duration when
\* it is known, also when times or durations differ from chars in length.
C3_TotalDurationOfLastChar ==
    \A k \in 1..Len(saved) :
        LET total == saved[k].record.total_duration_ms
            n     == Len(args.chars)
        IN /\ n = 0 => total = 0
           /\ LastCharKnownStart =>
                  total = args.times[n]
                          + (IF LastCharKnownDuration THEN args.durations[1][n] ELSE 0)

\* C4 as stated: in every record written, characters is as long as
\* char_count says, and char_count = text_length = the character count of text.
C4_CountsAgree ==
    \A k \in 1..Len(saved) :
        LET r == saved[k].record IN
        /\ Len(r.characters) = r.char_count
        /\ r.char_count = r.text_length
        /\ r.text_length = Len(r.text)

\* C4, amended: in every record written, characters is as long as char_count
\* says, which is len(chars), and text_length is the character (not byte)
\* count of text; the two agree when chars has one element per character of
\* text.
C4_CountsAgreeForDecomposedText ==
    \A k \in 1..Len(saved) :
        LET r == saved[k].record IN
        /\ r.text = args.text
        /\ Len(r.characters) = r.char_count
        /\ r.char_count = Len(args.chars)
        /\ r.text_length = Len(args.text)
        /\ Len(args.chars) = Len(args.text) => r.char_count = r.text_length

C4_Witness ==
    /\ Len(saved) = 1
    /\ args.text = <<1605, 97>> /\ args.chars = Decompose(args.text)
    /\ saved[1].record.text_length = 2 /\ saved[1].record.char_count = 2

\* C7: one entry per element of chars, in order, index its 0-based position,
\* start_ms and duration_ms taken from times and durations where they reach
\* and null where they do not; every call returns a record.
C7_DefensiveZip ==
    /\ Len(saved) = calls
    /\ \A k \in 1..Len(saved) :
        LET cs == saved[k].record.characters IN
        /\ Len(cs) = Len(args.chars)
        /\ \A i \in 1..Len(cs) :
            /\ cs[i].index = i - 1
            /\ cs[i].char = args.chars[i]
            /\ cs[i].start_ms = IF i <= Len(args.times) THEN Some(args.times[i]) ELSE None
            /\ cs[i].duration_ms =
                   IF args.durations # None /\ i <= Len(args.durations[1])
                   THEN Some(args.durations[1][i]) ELSE None

C7_Witness ==
    /\ Len(saved) = 1
    /\ Len(args.chars) = 2 /\ args.times = <<20>> /\ args.durations = Some(<<>>)
    /\ saved[1].record.characters[1].start_ms = Some(20)
    /\ saved[1].record.characters[2].start_ms = None
    /\ saved[1].record.characters[2].duration_ms = None

-----------------------------------------------------------------------------
(* Properties of the files and the "latest" pointers, under SpecLogger.    *)

Shared == default_logger[1]

\* C5: when a second save_alignment returns, its timestamped file is not the
\* first call's, the first call's file still holds the first record, and the
\* two "latest" pointers hold the second call's record and text.
C5_TwoSavesTwoFiles ==
    (last.op = "save_alignment" /\ ~last.raised /\ Len(saved) >= 2) =>
        LET first  == saved[Len(saved) - 1]
            second == saved[Len(saved)]
        IN /\ first.path # second.path
           /\ Exists(first.path)
           /\ fs.files[first.path] = JsonDump(first.record)
           /\ fs.files[second.path] = JsonDump(second.record)
           /\ fs.files[LatestAlignment(Shared)] = JsonDump(second.record)
           /\ fs.files[LatestOutput(Shared)] = TextFile(second.text)

\* C6: a get_latest_alignment that follows a save_alignment that returned
\* gives back the record that call built, field for field.
C6_LatestRoundTrip ==
    [][(last.op = "save_alignment" /\ ~last.raised
        /\ last'.op = "get_latest_alignment")
       => /\ last'.ret # None
          /\ last'.ret[1] = saved[Len(saved)].record
          /\ JsonLoad(fs.files[last.ret[1]]).ok
          /\ JsonLoad(fs.files[last.ret[1]]).v = last'.ret[1]]_vars

C6_Witness ==
    /\ last.op = "get_latest_alignment" /\ last.ret # None
    /\ saved # <<>> /\ last.ret[1] = saved[Len(saved)].record
    /\ last.ret[1].text = <<1605>>
    /\ last.ret[1].characters[1].char = <<1605>>
    /\ last.ret[1].characters[1].duration_ms = None

C10_PointersAgree ==
    (Len(saved) >= 1 /\ failures = 0) =>
        /\ LatestAlignmentValue(Shared) # None
        /\ LatestOutputValue(Shared) # None
        /\ LatestAlignmentValue(Shared)[1].text = saved[Len(saved)].text
        /\ LatestOutputValue(Shared)[1] = LatestAlignmentValue(Shared)[1].text

-----------------------------------------------------------------------------
(* Property of get_alignment_logger, under SpecSingleton.                  *)

\* C9: once get_alignment_logger has been called, exactly one instance has
\* been created, by the first call; every call returned it; its directories
\* are those of the first call's base_dir.
C9_OneSharedInstance ==
    /\ getter.first = None => (created = 0 /\ default_logger = None)
    /\ getter.first # None =>
        /\ created = 1
        /\ default_logger = Some(Instance(1, getter.first[1]))
        /\ getter.returned = {default_logger[1]}
        /\ default_logger[1].alignment_dir = <<getter.first[1], "alignment">>
        /\ default_logger[1].output_dir = <<getter.first[1], "outputs">>
        /\ last.op = "get_alignment_logger" => last.ret = default_logger

C9_Witness ==
    /\ getter.first = Some("logs") /\ getter.arg = Some("tmp")
    /\ last.op = "get_alignment_logger"
    /\ last.ret = Some(Instance(1, "logs"))
    /\ calls >= 1

====
